---- MODULE Spec2Model ----
(***************************************************************************)
(* Poisson-disk sampling (Bridson's active-list algorithm) of naegi/noise: *)
(* the uniform Grid, the annulus proposal distribution, the RobertBridson  *)
(* algorithm and the PoissonDisk iterator of src/src/poisson.rs and        *)
(* src/src/distributions.rs.                                               *)
(*                                                                         *)
(* Coordinates are points of an integer lattice; the coordinate value 1.0  *)
(* is `scale` lattice steps (1 in a session of ordinary size, many in a    *)
(* session whose box and radius are tiny).  Arithmetic is exact:           *)
(* cell_size = radius / sqrt(2) is irrational, so floor(d / cell_size) and *)
(* ceil(d / cell_size) are computed by comparing squares,                  *)
(*     k <= d / cell_size  <=>  k^2 * radius^2 <= 2 * d^2   (k, d >= 0).   *)
(* The isize arithmetic of can_insert keeps a width: IsizeBits bits here,  *)
(* 64 in the program; the tiny sessions are scaled to that width.          *)
(***************************************************************************)
EXTENDS Integers, Sequences, FiniteSets

-----------------------------------------------------------------------------
(* Bounds of the model *)

\* smallest and largest sampling radius, in lattice steps
MinRadius == 1
MaxRadius == 2
\* pulls made after the sequence has signalled termination
MaxNonePulls == 2
\* the width of isize in bits
IsizeBits == 5

(* Program constant: proposals per selected active point, `for _ in 0..30` *)
Attempts == 30

-----------------------------------------------------------------------------
(* Vec2 and Option *)

None == << >>
Some(v) == << v >>
\* the value of result before the first pull has returned (neither None nor
\* Some(v): a sequence of another length)
NotPulled == << << 0, 0 >>, << 0, 0 >> >>

Vec2(x, y) == << x, y >>
\* the sum that forgets its first operand
VAdd_second_only(a, b) == b
VAdd(a, b) == << a[1] + b[1], a[2] + b[2] >>
VSub(a, b) == << a[1] - b[1], a[2] - b[2] >>
length_squared(v) == v[1] * v[1] + v[2] * v[2]

-----------------------------------------------------------------------------
VARIABLES
    inner,        \* Grid.inner: cell array of Option<Vec2>; the cell of
                  \* index i is inner[i + 1]
    extent,       \* Grid.extent: << width, height >>
    radius,       \* Grid.radius, in lattice steps
    scale,        \* the lattice steps in the coordinate value 1.0: with
                  \* radius it stands for Grid.cell_size
                  \* (1.0 / cell_size = scale * sqrt 2 / radius)
    overflow_checks, \* the build: TRUE when integer overflow panics (debug),
                  \* FALSE when it wraps (release)
    bottom_left,  \* Grid.bottom_left
    top_right,    \* Grid.top_right
    indices,      \* RobertBridson.indices: the active set
    init,         \* PoissonDisk.init
    pc,           \* "idle": between pulls; "try": inside the proposal loop
                  \* of next; the process panicked: "panic_init" (unwrap in
                  \* init), "panic_lookup" (active point missing in next),
                  \* "panic_unwrap" (unwrap in next), "panic_index" (the
                  \* indexed write of insert out of range),
                  \* "panic_overflow" (isize overflow in can_insert)
    index,        \* next: the selected active-set slot
    xi,           \* next: the point of the selected slot
    attempt,      \* next: proposals already drawn for the selected slot
    result,       \* what the last completed pull returned
    emitted,      \* history: the points returned so far, in order
    nonePulls,    \* history: pulls that returned None
    initCalls,    \* history: calls of RobertBridson::init
    nextCalled    \* history: RobertBridson::next was called

vars == << inner, extent, radius, scale, overflow_checks, bottom_left,
           top_right, indices, init, pc, index, xi, attempt, result, emitted,
           nonePulls, initCalls, nextCalled >>

\* what a session never changes: the Grid's dimensions and the build
config == << extent, radius, scale, overflow_checks, bottom_left,
            top_right >>

-----------------------------------------------------------------------------
(* f32 helpers on the lattice *)

\* floor(d / cell_size) for d >= 0
FloorCells(d, r) ==
    CHOOSE k \in 0..(2 * d) :
        /\ k * k * r * r <= 2 * d * d
        /\ (k + 1) * (k + 1) * r * r > 2 * d * d

\* ceil(d / cell_size) for d > 0
CeilCells(d, r) ==
    CHOOSE k \in 1..(2 * d + 1) :
        /\ k * k * r * r >= 2 * d * d
        /\ (k - 1) * (k - 1) * r * r < 2 * d * d

-----------------------------------------------------------------------------
(* isize *)

IsizeMax == 2 ^ (IsizeBits - 1) - 1
IsizeMin == - IsizeMax - 1

\* `x as isize` of a float x: the cast saturates
as_isize(x) ==
    IF x > IsizeMax THEN IsizeMax ELSE IF x < IsizeMin THEN IsizeMin ELSE x

\* the value an isize operation leaves when overflow wraps
wrapping(x) == ((x - IsizeMin) % (2 ^ IsizeBits)) + IsizeMin

overflows(x) == x > IsizeMax \/ x < IsizeMin

-----------------------------------------------------------------------------
(* Grid *)

\* Grid::new with the dimensions rounded down
Grid_new_floor(r, ext) ==
    LET width  == FloorCells(ext[2][1] - ext[1][1], r)
        height == FloorCells(ext[2][2] - ext[1][2], r)
    IN  [ inner       |-> [ i \in 1..(width * height) |-> None ],
          bottom_left |-> ext[1],
          top_right   |-> ext[2],
          extent      |-> << width, height >>,
          radius      |-> r ]

\* Grid::new: the cell array and its dimensions
Grid_new(r, ext) ==
    LET grid_width  == ext[2][1] - ext[1][1]
        grid_height == ext[2][2] - ext[1][2]
        width  == CeilCells(grid_width, r)
        height == CeilCells(grid_height, r)
    IN  [ inner       |-> [ i \in 1..(width * height) |-> None ],
          bottom_left |-> ext[1],
          top_right   |-> ext[2],
          extent      |-> << width, height >>,
          radius      |-> r ]

\* get_cell with the box closed (`>` for `>=`, `<` for `<=`)
get_cell_closed(pos) ==
    IF \/ pos[1] > top_right[1] \/ pos[1] < bottom_left[1]
       \/ pos[2] > top_right[2] \/ pos[2] < bottom_left[2]
    THEN None
    ELSE Some(<< FloorCells(pos[1] - bottom_left[1], radius),
                 FloorCells(pos[2] - bottom_left[2], radius) >>)

get_cell(pos) ==
    IF \/ pos[1] >= top_right[1] \/ pos[1] <= bottom_left[1]
       \/ pos[2] >= top_right[2] \/ pos[2] <= bottom_left[2]
    THEN None
    ELSE Some(<< FloorCells(pos[1] - bottom_left[1], radius),
                 FloorCells(pos[2] - bottom_left[2], radius) >>)

get_index(pos) ==
    LET c == get_cell(pos)
    IN  IF c = None THEN None ELSE Some(c[1][1] + c[1][2] * extent[1])

\* Grid::insert on the cell array in: the returned index, the new cell array,
\* and whether the indexed write `self.inner[index] = ..` ran out of range
insert(in, pos) ==
    LET i == get_index(pos)
    IN  IF i = None
        THEN [ index |-> None, inner |-> in, panic |-> FALSE ]
        ELSE IF i[1] < Len(in)
             THEN [ index |-> i,
                    inner |-> [ in EXCEPT ![i[1] + 1] = Some(pos) ],
                    panic |-> FALSE ]
             ELSE [ index |-> None, inner |-> in, panic |-> TRUE ]

\* Grid::get reading one cell too far
get_off_by_one(in, i) == IF i + 1 < Len(in) THEN in[i + 2] ELSE None

get(in, i) == IF i < Len(in) THEN in[i + 1] ELSE None

\* can_insert: `(1.0 / self.cell_size).ceil() as isize`
CellsPerUnit == as_isize(CeilCells(scale, radius))

\* can_insert: `+ 1` or `2 *` overflows isize; the build decides between a
\* panic and the wrapped value
ScanOverflows ==
    \/ overflows(CellsPerUnit + 1)
    \/ overflows(2 * wrapping(CellsPerUnit + 1))

\* can_insert panics on its first line, before it looks at the position
can_insert_panics == overflow_checks /\ ScanOverflows

\* the half-width m of the scanned neighbourhood
ScanHalfWidth == wrapping(2 * wrapping(CellsPerUnit + 1))

\* the offsets of `-m..=m`
ScanRange(m) == wrapping(- m)..m

\* Grid::can_insert when it returns (the sums w + i and h + j of a scan that
\* ends are far from the limits of isize)
can_insert(in, pos) ==
    \E m \in { ScanHalfWidth }, c \in { get_cell(pos) } :
        /\ c # None
        /\    ~ \E i \in ScanRange(m) :
                 LET w == c[1][1] + i
                 IN  /\ w >= 0
                     /\ \E j \in ScanRange(m) :
                           LET h == c[1][2] + j
                           IN  /\ h >= 0
                               /\ LET p == get(in, h * extent[1] + w)
                                  IN  /\ p # None
                                      /\ length_squared(VSub(p[1], pos))
                                             <= radius * radius

\* Vec::remove in the place of Vec::swap_remove: the entries after the slot
\* move down by one
swap_remove_ordered(s, i) ==
    [ k \in 1..(Len(s) - 1) |-> IF k < i + 1 THEN s[k] ELSE s[k + 1] ]

swap_remove(s, i) ==
    [ k \in 1..(Len(s) - 1) |-> IF k = i + 1 THEN s[Len(s)] ELSE s[k] ]

-----------------------------------------------------------------------------
(* Random draws *)

\* a seed distribution that never yields an edge of the box
SeedDraws_interior ==
    { Vec2(a, b) : a \in (bottom_left[1] + 1)..(top_right[1] - 1),
                   b \in (bottom_left[2] + 1)..(top_right[2] - 1) }

\* Uniform::<Vec2>::new(extent[0], extent[1]): half-open on both axes
SeedDraws ==
    { Vec2(a, b) : a \in bottom_left[1]..(top_right[1] - 1),
                   b \in bottom_left[2]..(top_right[2] - 1) }

\* AnnulusDistribution::new with the bounds of the radius not squared
AnnulusDistribution_new_unsquared(low, high) == [ radius |-> << low, high >> ]

\* AnnulusDistribution::new(low, high): the inclusive range the squared
\* radius is drawn from (the angle is drawn from the whole circle)
AnnulusDistribution_new(low, high) ==
    [ radius |-> << low * low, high * high >> ]

\* the least k with k * k >= n: no vector of squared length <= n has a
\* component beyond it
SqrtCeil(n) ==
    CHOOSE k \in 0..n : k * k >= n /\ (k = 0 \/ (k - 1) * (k - 1) < n)

\* AnnulusDistribution::sample: r = sqrt(u) for a draw u of the radius
\* range, turned by the drawn angle; on the lattice, the vectors whose
\* squared length is such a u
AnnulusDistribution_sample(d) ==
    { v \in (LET k == SqrtCeil(d.radius[2]) IN ((- k)..k) \X ((- k)..k)) :
        /\ length_squared(v) >= d.radius[1]
        /\ length_squared(v) <= d.radius[2] }

\* RobertBridson.annulus_distr
annulus_distr == AnnulusDistribution_new(radius, 2 * radius)

-----------------------------------------------------------------------------
\* the boxes sampled with radius r: wider than the radius, so that a session
\* emits several points, and not square
Extents(r) ==
    { << Vec2(a, b), Vec2(a + r + 3, b + r + 2) >> : a \in {-1}, b \in {1} }

\* the sessions of ordinary size: 1.0 is one lattice step and the half-width
\* of can_insert is far from the limits of isize, so the two builds agree
\* and one of them is followed
OrdinarySessions ==
    UNION { { [ radius |-> r, scale |-> 1, box |-> ext,
                overflow_checks |-> TRUE ] : ext \in Extents(r) }
            : r \in MinRadius..MaxRadius }

\* the sessions with a tiny radius in a tiny box, one row of lattice points:
\* 1.0 / cell_size is so large that 2 * (ceil + 1) does not fit isize
\* (with scale = radius * 2^(IsizeBits - 2) the doubling overflows, with
\* twice that scale the cast saturates and the `+ 1` overflows)
TinyRadius == MaxRadius + 1
TinySessions ==
    { [ radius |-> TinyRadius, scale |-> TinyRadius * k,
        box |-> << Vec2(0, 0), Vec2(TinyRadius + 3, 2) >>,
        overflow_checks |-> b ]
      : k \in { 2 ^ (IsizeBits - 2), 2 ^ (IsizeBits - 1) }, b \in BOOLEAN }

Init ==
    \E s \in OrdinarySessions \cup TinySessions :
        LET g == Grid_new(s.radius, s.box)
        IN  /\ inner = g.inner
            /\ extent = g.extent
            /\ radius = g.radius
            /\ scale = s.scale
            /\ overflow_checks = s.overflow_checks
            /\ bottom_left = g.bottom_left
            /\ top_right = g.top_right
            /\ indices = << >>
            /\ init = FALSE
            /\ pc = "idle"
            /\ index = 0
            /\ xi = Vec2(0, 0)
            /\ attempt = 0
            /\ result = NotPulled
            /\ emitted = << >>
            /\ nonePulls = 0
            /\ initCalls = 0
            /\ nextCalled = FALSE

\* the locals of next go out of scope when it returns
locals == << index, xi, attempt >>
DropLocals ==
    /\ index' = 0
    /\ xi' = Vec2(0, 0)
    /\ attempt' = 0

\* the head of the loop of RobertBridson::next on the active set s:
\* return None when s is empty, otherwise select a slot and read its point
LoopHead(s) ==
    IF s = << >>
    THEN /\ pc' = "idle"
         /\ result' = None
         /\ nonePulls' = nonePulls + 1
         /\ DropLocals
    ELSE \E k \in 0..(Len(s) - 1) :
            LET p == get(inner, s[k + 1])
            IN  IF p = None
                THEN /\ pc' = "panic_lookup"
                     /\ UNCHANGED << locals, result, nonePulls >>
                ELSE /\ pc' = "try"
                     /\ index' = k
                     /\ xi' = p[1]
                     /\ attempt' = 0
                     /\ UNCHANGED << result, nonePulls >>

\* PoissonDisk::next: `if !self.init`, with a plausible slip of it
InitDue_restart == indices = << >>
InitDue == ~init

\* PoissonDisk::next: the flag after `self.init = true`, and the slip of
\* leaving it out
InitFlag_unset == init
InitFlag == TRUE

\* PoissonDisk::next, first pull: RobertBridson::init
PullInit ==
    /\ pc = "idle"
    /\ InitDue
    /\ init' = InitFlag
    /\ initCalls' = initCalls + 1
    /\ \E x0 \in SeedDraws :
          LET ins == insert(inner, x0)
          IN  IF ins.index = None
              THEN /\ pc' = IF ins.panic THEN "panic_index" ELSE "panic_init"
                   /\ UNCHANGED << inner, indices, result, emitted >>
              ELSE /\ inner' = ins.inner
                   /\ indices' = Append(indices, ins.index[1])
                   /\ result' = Some(x0)
                   /\ emitted' = Append(emitted, x0)
                   /\ pc' = "idle"
    /\ UNCHANGED << config, locals, nonePulls, nextCalled >>

\* PoissonDisk::next, later pulls: entry of RobertBridson::next
PullNext ==
    /\ pc = "idle"
    /\ ~InitDue
    /\ nonePulls < MaxNonePulls
    /\ nextCalled' = TRUE
    /\ LoopHead(indices)
    /\ UNCHANGED << config, inner, indices, init, emitted, initCalls >>

\* the outcome of one proposal x = xi + annulus_distr.sample(rng): the
\* candidate when can_insert accepts it
Proposal(c) ==
    IF can_insert(inner, c)
    THEN [ ok |-> TRUE, x |-> c ]
    ELSE [ ok |-> FALSE, x |-> Vec2(0, 0) ]

\* the occupied cells
Occupied == { i \in 1..Len(inner) : inner[i] # None }

\* a session that has emitted more points than the Grid has cells is followed
\* no further
Followed == Len(emitted) <= Len(inner)

\* one proposal of the `for _ in 0..30` loop
Propose ==
    /\ pc = "try"
    /\ attempt < Attempts
    /\ Followed
    /\ IF can_insert_panics
       THEN /\ pc' = "panic_overflow"
            /\ UNCHANGED << inner, indices, result, emitted, locals >>
       ELSE \E o \in { Proposal(VAdd(xi, off)) :
                           off \in
                               AnnulusDistribution_sample(annulus_distr) } :
               IF o.ok
               THEN LET ins == insert(inner, o.x)
                    IN  IF ins.index = None
                        THEN /\ pc' = IF ins.panic THEN "panic_index"
                                                  ELSE "panic_unwrap"
                             /\ UNCHANGED << inner, indices, result, emitted,
                                             locals >>
                        ELSE /\ inner' = ins.inner
                             /\ indices' = Append(indices, ins.index[1])
                             /\ result' = Some(o.x)
                             /\ emitted' = Append(emitted, o.x)
                             /\ pc' = "idle"
                             /\ DropLocals
               ELSE /\ attempt' = attempt + 1
                    /\ UNCHANGED << inner, indices, result, emitted, pc,
                                    index, xi >>
    /\ UNCHANGED << config, init, nonePulls, initCalls, nextCalled >>

\* all 30 proposals failed: drop the selected slot and loop
Exhaust ==
    /\ pc = "try"
    /\ attempt = Attempts
    /\ indices' = swap_remove(indices, index)
    /\ LoopHead(indices')
    /\ UNCHANGED << config, inner, init, emitted, initCalls, nextCalled >>

Panicked == pc \in { "panic_init", "panic_lookup", "panic_unwrap",
                     "panic_index", "panic_overflow" }

Next == PullInit \/ PullNext \/ Propose \/ Exhaust

Spec == Init /\ [][Next]_vars

-----------------------------------------------------------------------------
(* Claims *)

Inside(p) ==
    /\ bottom_left[1] < p[1] /\ p[1] < top_right[1]
    /\ bottom_left[2] < p[2] /\ p[2] < top_right[2]

\* C1 (minimum separation): any two distinct points emitted in one session,
\* whatever the draws, are at squared distance >= radius^2 of each other.
C1_MinimumSeparation ==
    \A i, j \in 1..Len(emitted) :
        (i < j /\ emitted[i] # emitted[j])
            => length_squared(VSub(emitted[i], emitted[j])) >= radius * radius

\* C2 (containment): every emitted point, the seed included, is strictly
\* inside the box on both axes.
C2_Containment ==
    \A i \in 1..Len(emitted) : Inside(emitted[i])

\* the seed and a point accepted by next, next to the lower-left edges
C2_Witness ==
    /\ Len(emitted) >= 2
    /\ \E i \in 2..Len(emitted) :
          /\ emitted[i][1] = bottom_left[1] + 1
          /\ emitted[i][2] = bottom_left[2] + 1

\* the work left in a session: the free cells, then the active entries,
\* then the proposals left for the selected entry
Rank ==
    (Len(inner) - Cardinality(Occupied)) * (Len(inner) + 1) * (Attempts + 2)
    + Len(indices) * (Attempts + 2)
    + (IF pc = "try" THEN Attempts - attempt ELSE Attempts + 1)

\* C3 (finiteness): whatever the radius, the box and the draws, every step
\* of a session other than a return of None uses up some of the work left,
\* so every call of next leaves its retry loop and returns, and the points
\* are finitely many; a pull returns None exactly when the active set is
\* empty; and a session stops only after a pull has returned None (or, when
\* the seed drawn by init lies on an edge of the box, with the abort of init
\* before any point is emitted).
C3_Finiteness ==
    /\ [](Rank >= 0)
    /\ [][ (result' # None /\ ~Panicked') => Rank' < Rank ]_vars
    /\ []((result = None) => (indices = << >> /\ pc = "idle"))
    /\ []((pc = "idle" /\ nextCalled /\ indices = << >>) => (result = None))
    /\ []((~ ENABLED Next)
             => (result = None \/ (pc = "panic_init" /\ emitted = << >>)))

\* C4 (stability of termination): once a pull has returned None, every
\* later pull returns None and changes neither the Grid nor the active set.
C4_TerminationStable ==
    [][ (pc = "idle" /\ result = None)
            => /\ pc' = "idle"
               /\ result' = None
               /\ inner' = inner
               /\ indices' = indices
               /\ emitted' = emitted ]_vars

\* a second pull after termination has returned None
C4_Witness ==
    /\ result = None
    /\ nonePulls >= 2
    /\ Len(emitted) >= 2

\* C5 (wrapper ordering): the first pull calls init and every later pull
\* calls next; init is called exactly once and never after next.
C5_WrapperOrdering ==
    /\ initCalls = (IF init THEN 1 ELSE 0)
    /\ nextCalled => init
    /\ ~init => (result = NotPulled /\ emitted = << >> /\ pc = "idle")
    /\ (pc = "idle" /\ result # NotPulled) => initCalls = 1

\* next has been called after the sequence terminated
C5_Witness ==
    /\ nextCalled
    /\ nonePulls >= 2
    /\ initCalls = 1

\* C6 (active-set referent): every index of the active set addresses an
\* occupied cell, so the lookup of next never panics.
C6_ActiveReferent ==
    /\ \A k \in 1..Len(indices) : get(inner, indices[k]) # None
    /\ pc # "panic_lookup"

\* a slot other than the first was selected and read while three entries
\* were active
C6_Witness ==
    /\ pc = "try"
    /\ Len(indices) >= 3
    /\ index >= 1
    /\ Some(xi) = get(inner, indices[index + 1])

\* C7 (no overwrite): no insert targets an occupied cell and no cell is
\* cleared: an occupied cell keeps its point, and the occupied cells are as
\* many as the points emitted.
C7_NoOverwrite ==
    /\ [](Cardinality(Occupied) = Len(emitted))
    /\ [][ \A i \in 1..Len(inner) :
              inner[i] # None => inner'[i] = inner[i] ]_vars

\* the positions probed: the box and a margin of two steps around it
Probes ==
    { Vec2(a, b) : a \in (bottom_left[1] - 2)..(top_right[1] + 2),
                   b \in (bottom_left[2] - 2)..(top_right[2] + 2) }

Stored == { inner[i][1] : i \in Occupied }

\* the stored point p lies in a cell that can_insert(q) scans
Scanned(p, q) ==
    \E m \in { ScanHalfWidth }, cp \in { get_cell(p) }, cq \in { get_cell(q) } :
        /\ cp # None
        /\ cq # None
        /\ cp[1][1] - cq[1][1] \in ScanRange(m)
        /\ cp[1][2] - cq[1][2] \in ScanRange(m)

\* C8 (occupancy query), on the Grid as it stands between two pulls:
\* can_insert(q) returns, with false for every in-bounds q with a stored
\* point nearer than radius in a scanned cell, and with true for every q
\* strictly inside the box that is farther than radius from every stored
\* point.
C8_OccupancyQuery ==
    pc = "idle" =>
        /\ ~ can_insert_panics
        /\ \A q \in Probes :
              /\ (\E p \in Stored :
                      /\ Scanned(p, q)
                      /\ length_squared(VSub(p, q)) < radius * radius)
                     => ~ can_insert(inner, q)
              /\ (/\ Inside(q)
                  /\ \A p \in Stored :
                        length_squared(VSub(p, q)) > radius * radius)
                     => can_insert(inner, q)

\* C9 (acceptance never hits the absence path): whenever can_insert accepts
\* a candidate of next, insert returns Some(index) with index < width *
\* height and writes in range; the unwrap of next never panics.  (The
\* candidates are looked at when a slot is selected: the Grid and xi stay as
\* they are while its proposals are refused.)
C9_AcceptanceInserts ==
    /\ pc \notin { "panic_unwrap", "panic_index" }
    /\ (pc = "try" /\ attempt = 0) =>
          \A off \in AnnulusDistribution_sample(annulus_distr) :
              can_insert(inner, VAdd(xi, off)) =>
                  \E ins \in { insert(inner, VAdd(xi, off)) } :
                      /\ ins.index # None
                      /\ ins.index[1] < extent[1] * extent[2]
                      /\ ~ ins.panic

\* next accepted the point next to the upper-right corner of the box
C9_Witness ==
    /\ Len(emitted) >= 2
    /\ result = Some(Vec2(top_right[1] - 1, top_right[2] - 1))
    /\ get_index(result[1]) # None
    /\ inner[get_index(result[1])[1] + 1] = result

\* C10 (out of bounds at the Grid layer): for every position on or outside
\* an edge of the box, get_cell is None, insert returns None and leaves
\* every cell as it was, and can_insert returns false; none of them panics.
C10_OutOfBounds ==
    pc \in { "idle", "panic_init" } =>
        /\ ~ can_insert_panics
        /\ \A q \in Probes :
              ~ Inside(q) =>
                  /\ get_cell(q) = None
                  /\ get_index(q) = None
                  /\ insert(inner, q)
                        = [ index |-> None, inner |-> inner, panic |-> FALSE ]
                  /\ ~ can_insert(inner, q)

C13_ActiveSetFrame ==
    /\ [](pc = "try" =>
            /\ index < Len(indices)
            /\ attempt \in 0..Attempts
            /\ get(inner, indices[index + 1]) = Some(xi))
    /\ [][ (pc = "try" /\ pc' = "try" /\ attempt' # attempt
               /\ indices' = indices)
              => /\ attempt' = attempt + 1
                 /\ inner' = inner
                 /\ index' = index
                 /\ xi' = xi ]_vars
    /\ [][ Len(indices') < Len(indices)
              => /\ pc = "try"
                 /\ attempt = Attempts
                 /\ inner' = inner
                 /\ emitted' = emitted
                 /\ indices' =
                       [ k \in 1..(Len(indices) - 1) |->
                           IF k = index + 1 THEN indices[Len(indices)]
                                            ELSE indices[k] ] ]_vars
    /\ [][ Len(indices') > Len(indices)
              => /\ result' # None
                 /\ emitted' = Append(emitted, result'[1])
                 /\ get_index(result'[1]) # None
                 /\ indices' = Append(indices, get_index(result'[1])[1])
                 /\ pc = "try" =>
                       /\ attempt < Attempts
                       /\ indices'[index + 1] = indices[index + 1] ]_vars
    /\ [][ Len(indices') = Len(indices) => indices' = indices ]_vars

\* three points were emitted, then the slot of the seed was exhausted while
\* the two others were active: the last entry has taken its place
C13_Witness ==
    /\ Len(emitted) = 3
    /\ Len(indices) = 2
    /\ get_index(emitted[3]) = Some(indices[1])
    /\ get_index(emitted[2]) = Some(indices[2])
    /\ pc = "try"
    /\ attempt = 0

\* the flat index of the cell of a position inside the box
CellIndex(p) ==
    FloorCells(p[1] - bottom_left[1], radius)
    + FloorCells(p[2] - bottom_left[2], radius) * extent[1]

\* C14 (init outcome): the first pull never returns None.  For a seed
\* strictly inside the box init returns it, and the Grid then holds that one
\* point and the active set the index of its cell; a seed on an edge of the
\* box, which the seed distribution can draw, makes init abort with nothing
\* emitted and nothing stored.
C14_InitOutcome ==
    /\ [](~ nextCalled => (result # None /\ nonePulls = 0))
    /\ [](~ init =>
            /\ \E x0 \in SeedDraws : ~ Inside(x0)
            /\ \A x0 \in SeedDraws :
                  \E ins \in { insert(inner, x0) } :
                     /\ ~ ins.panic
                     /\ Inside(x0) <=> ins.index # None)
    /\ [][ ~ init =>
              \/ /\ pc' = "panic_init"
                 /\ result' = NotPulled
              \/ /\ pc' = "idle"
                 /\ result' \in { Some(x0) : x0 \in SeedDraws } ]_vars
    /\ []((init /\ ~ nextCalled /\ pc = "idle") =>
            \E x0 \in SeedDraws :
               /\ Inside(x0)
               /\ result = Some(x0)
               /\ emitted = << x0 >>
               /\ Occupied = { CellIndex(x0) + 1 }
               /\ inner[CellIndex(x0) + 1] = Some(x0)
               /\ indices = << CellIndex(x0) >>)
    /\ [](pc = "panic_init" =>
            /\ ~ nextCalled
            /\ result = NotPulled
            /\ emitted = << >>
            /\ Occupied = { }
            /\ indices = << >>)

\* init drew a seed on the lower edge and aborted
C14_Witness ==
    /\ pc = "panic_init"
    /\ init
    /\ initCalls = 1
    /\ emitted = << >>

\* C15 (neighbourhood coverage): whatever the radius, can_insert computes a
\* half-width m >= 2, and for a candidate q inside the box every stored point
\* at distance <= radius lies within 2 columns and 2 rows of the cell of q,
\* in a cell that the scan visits, so that q is refused.
C15_NeighbourhoodCoverage ==
    /\ ~ can_insert_panics
    /\ ScanHalfWidth >= 2
    /\ pc = "idle" =>
          \A q \in Probes, p \in Stored :
              (Inside(q) /\ length_squared(VSub(p, q)) <= radius * radius)
                  => /\ \E cp \in { get_cell(p) }, cq \in { get_cell(q) } :
                           /\ cp[1][1] - cq[1][1] \in (-2)..2
                           /\ cp[1][2] - cq[1][2] \in (-2)..2
                     /\ Scanned(p, q)
                     /\ ~ can_insert(inner, q)

\* C16 (bounded output): the points emitted in a session are never more than
\* the width * height cells of the Grid.
C16_BoundedOutput ==
    /\ Len(inner) = extent[1] * extent[2]
    /\ Len(emitted) <= extent[1] * extent[2]

\* C17 (active set without duplicates): the indices of the active set are
\* pairwise distinct and never more than the occupied cells.
C17_NoDuplicates ==
    /\ \A k, l \in 1..Len(indices) : k < l => indices[k] # indices[l]
    /\ Len(indices) <= Cardinality(Occupied)

\* the squared distance of p and q is between radius^2 and (2 * radius)^2
InAnnulus(p, q) ==
    /\ radius * radius <= length_squared(VSub(p, q))
    /\ length_squared(VSub(p, q)) <= 4 * radius * radius

\* C18 (parent proximity): every emitted point but the seed lies between
\* radius and 2 * radius from an earlier emitted point; in the step that
\* emits it, that point is xi, the stored point of the selected slot of the
\* active set.
C18_ParentProximity ==
    /\ [](\A j \in 2..Len(emitted) :
             \E i \in 1..(j - 1) : InAnnulus(emitted[j], emitted[i]))
    /\ [][ (Len(emitted') > Len(emitted) /\ emitted # << >>)
              => /\ pc = "try"
                 /\ emitted' = Append(emitted, result'[1])
                 /\ InAnnulus(result'[1], xi)
                 /\ \E i \in 1..Len(emitted) : emitted[i] = xi
                 /\ index < Len(indices)
                 /\ get(inner, indices[index + 1]) = Some(xi)
                 /\ indices'[index + 1] = indices[index + 1] ]_vars

\* next has returned a third point that is out of reach of the seed: its
\* parent is the second point
C18_Witness ==
    /\ Len(emitted) = 3
    /\ result = Some(emitted[3])
    /\ ~ InAnnulus(emitted[3], emitted[1])
    /\ InAnnulus(emitted[3], emitted[2])

====
